---- MODULE Spec2Model ----
(***************************************************************************)
(* Model of Falha_Tsai_Wu.py: the Tsai_Wu failure criterion object (its    *)
(* constructor and its criterio method) and the free function tensao.      *)
(*                                                                         *)
(* Numbers.  The program computes in IEEE doubles.  The model computes in  *)
(* exact rationals <<n, d>> (d > 0, lowest terms); the three non-real      *)
(* outcomes the program can produce are modelled explicitly:               *)
(*   - a Python float division by zero raises ZeroDivisionError (tensao);  *)
(*   - a numpy float64 division by zero yields inf, inf * 0 yields nan,    *)
(*     and numpy.sqrt of a negative number yields nan (criterio).          *)
(* A finite safety factor is the real number rat + coef * sqrt(rad), kept  *)
(* exactly as that triple.  On strengths and stresses that are powers of   *)
(* two the doubles of the program are exact and agree with the model; on   *)
(* other inputs they differ from it by rounding.                           *)
(***************************************************************************)
EXTENDS Integers, Sequences, FiniteSets, TLC

VARIABLES
    obj,       \* the Tsai_Wu object: its twelve coefficients, or NoObject
    ctorArgs,  \* the arguments __init__ was called with, or NoObject
    thr,       \* per thread: the frame of its criterio call
    ret,       \* per thread: what its last criterio call returned
    sec        \* the frame and outcome of the last tensao call

vars == <<obj, ctorArgs, thr, ret, sec>>

(***************************************************************************)
(* Bounds of the model.                                                    *)
(***************************************************************************)
MaxStrength == 2   \* strengths given to __init__ range over 1..MaxStrength
MaxStress == 2     \* stress components range over -MaxStress..MaxStress
MaxDim == 4        \* h, b, t of tensao range over 1..MaxDim
MaxLoad == 1       \* MF, MTp, FC, MTt range over -MaxLoad..MaxLoad

(***************************************************************************)
(* Exact rational arithmetic.                                              *)
(***************************************************************************)
Abs(n) == IF n < 0 THEN -n ELSE n

RECURSIVE GCD(_, _)
GCD(a, b) == IF b = 0 THEN a ELSE GCD(b, a % b)

Norm(n, d) ==
    LET g == GCD(Abs(n), Abs(d))
        s == IF d < 0 THEN -1 ELSE 1
    IN  <<(s * n) \div g, (s * d) \div g>>

Q(n) == <<n, 1>>
\* over the least common denominator, so that intermediate products stay small
QAdd(a, b) ==
    LET g == GCD(a[2], b[2])
    IN  Norm(a[1] * (b[2] \div g) + b[1] * (a[2] \div g), (a[2] \div g) * b[2])
QNeg(a) == <<-a[1], a[2]>>
QSub(a, b) == QAdd(a, QNeg(b))
\* cross-reduced before multiplying, for the same reason
QMul(a, b) ==
    LET g == GCD(Abs(a[1]), b[2])
        k == GCD(Abs(b[1]), a[2])
    IN  Norm((a[1] \div g) * (b[1] \div k), (a[2] \div k) * (b[2] \div g))
QDiv(a, b) == QMul(a, Norm(b[2], b[1]))
QAbs(a) == <<Abs(a[1]), a[2]>>
QLt(a, b) == a[1] * b[2] < b[1] * a[2]
QLe(a, b) == a[1] * b[2] <= b[1] * a[2]
QSq(a) == QMul(a, a)
QCube(a) == QMul(a, QMul(a, a))

RECURSIVE QSum(_)
QSum(s) == IF s = <<>> THEN Q(0) ELSE QAdd(Head(s), QSum(Tail(s)))

\* floor of the integer square root
RECURSIVE ISqrtFrom(_, _)
ISqrtFrom(n, i) == IF (i + 1) * (i + 1) > n THEN i ELSE ISqrtFrom(n, i + 1)
ISqrt(n) == ISqrtFrom(n, 0)

IsSquareInt(n) == n >= 0 /\ ISqrt(n) * ISqrt(n) = n
IsSquareQ(a) == IsSquareInt(a[1]) /\ IsSquareInt(a[2])
\* the exact square root of a rational that has one
SqrtQ(a) == <<ISqrt(a[1]), ISqrt(a[2])>>

\* Python's None, and a value that is present
None == <<>>
Some(v) == <<v>>
Val(o) == o[1]

(***************************************************************************)
(* Tsai_Wu.__init__                                                        *)
(***************************************************************************)
\* the arguments of one __init__ call: six required strengths, three optional
CtorArgs(Xc, Xt, Zc, Zt, Sxy, Syz, Yc, Yt, Sxz) ==
    [Xc |-> Xc, Xt |-> Xt, Zc |-> Zc, Zt |-> Zt, Sxy |-> Sxy, Syz |-> Syz,
     Yc |-> Yc, Yt |-> Yt, Sxz |-> Sxz]

\* 1/c/t
InvProduct(c, t) == QDiv(QDiv(Q(1), Q(c)), Q(t))
\* (c-t)/c/t
DiffOverProduct(c, t) == QDiv(QDiv(Q(c - t), Q(c)), Q(t))
\* 1/(s**2)
InvSquare(s) == QDiv(Q(1), Q(s * s))

\* "Yc is not None and Yt is not None and Sxz is not None"
AllOptionalGiven(a) == a.Yc /= None /\ a.Yt /= None /\ a.Sxz /= None

\* OptionalCoeffs with the else branch copying F66 into F55
OptionalCoeffsTypo(a, F1, F11, F44) ==
    IF AllOptionalGiven(a)
    THEN [F2  |-> DiffOverProduct(Val(a.Yc), Val(a.Yt)),
          F22 |-> InvProduct(Val(a.Yc), Val(a.Yt)),
          F55 |-> InvSquare(Val(a.Sxz))]
    ELSE [F2 |-> F1, F22 |-> F11, F55 |-> InvSquare(a.Sxy)]

\* the if/else that sets F2, F22 and F55
OptionalCoeffs(a, F1, F11, F44) ==
    IF AllOptionalGiven(a)
    THEN [F2  |-> DiffOverProduct(Val(a.Yc), Val(a.Yt)),
          F22 |-> InvProduct(Val(a.Yc), Val(a.Yt)),
          F55 |-> InvSquare(Val(a.Sxz))]
    ELSE [F2 |-> F1, F22 |-> F11, F55 |-> F44]

\* 4*sqrt(Fs) - (2*Fa*sqrt(Fs) + 2*Fb*sqrt(Fs) + Faa + Fbb + Fs);
\* Fs is the reciprocal of a square, so its root is exact
Interaction(Fa, Fb, Faa, Fbb, Fs) ==
    LET r == SqrtQ(Fs)
    IN  QSub(QMul(Q(4), r),
             QSum(<<QMul(QMul(Q(2), Fa), r), QMul(QMul(Q(2), Fb), r),
                    Faa, Fbb, Fs>>))

\* the twelve coefficients __init__ stores on self
TsaiWuInit(a) ==
    LET F11 == InvProduct(a.Xc, a.Xt)
        F33 == InvProduct(a.Zc, a.Zt)
        F1  == DiffOverProduct(a.Xc, a.Xt)
        F3  == DiffOverProduct(a.Zc, a.Zt)
        F66 == InvSquare(a.Sxy)
        F44 == InvSquare(a.Syz)
        o   == OptionalCoeffs(a, F1, F11, F44)
    IN  [F1 |-> F1, F2 |-> o.F2, F3 |-> F3,
         F11 |-> F11, F22 |-> o.F22, F33 |-> F33,
         F44 |-> F44, F55 |-> o.F55, F66 |-> F66,
         F12 |-> Interaction(F1, o.F2, F11, o.F22, F66),
         F13 |-> Interaction(F1, F3, F11, F33, o.F55),
         F23 |-> Interaction(o.F2, F3, o.F22, F33, F44)]

\* the object the threads share
Self == obj[1]

(***************************************************************************)
(* Tsai_Wu.criterio                                                        *)
(***************************************************************************)
\* the six arguments of one criterio call
Stress(x, y, z, xy, xz, yz) ==
    [x |-> x, y |-> y, z |-> z, xy |-> xy, xz |-> xz, yz |-> yz]

\* criterio() with every argument defaulted
ZeroStress == Stress(0, 0, 0, 0, 0, 0)

\* CriterioR with F22*y in place of F22*(y**2)
CriterioRNoSquare(F, s) ==
    QSum(<<QMul(F.F1, Q(s.x)), QMul(F.F2, Q(s.y)), QMul(F.F3, Q(s.z)),
           QMul(F.F11, Q(s.x * s.x)), QMul(F.F22, Q(s.y)),
           QMul(F.F33, Q(s.z * s.z)),
           QMul(F.F44, Q(s.yz * s.yz)), QMul(F.F55, Q(s.xz * s.xz)),
           QMul(F.F66, Q(s.xy * s.xy)),
           QMul(QMul(Q(2), F.F12), Q(s.x * s.y)),
           QMul(QMul(Q(2), F.F13), Q(s.x * s.z)),
           QMul(QMul(Q(2), F.F23), Q(s.y * s.z))>>)

\* line 82: the failure index R
CriterioR(F, s) ==
    QSum(<<QMul(F.F1, Q(s.x)), QMul(F.F2, Q(s.y)), QMul(F.F3, Q(s.z)),
           QMul(F.F11, Q(s.x * s.x)), QMul(F.F22, Q(s.y * s.y)),
           QMul(F.F33, Q(s.z * s.z)),
           QMul(F.F44, Q(s.yz * s.yz)), QMul(F.F55, Q(s.xz * s.xz)),
           QMul(F.F66, Q(s.xy * s.xy)),
           QMul(QMul(Q(2), F.F12), Q(s.x * s.y)),
           QMul(QMul(Q(2), F.F13), Q(s.x * s.z)),
           QMul(QMul(Q(2), F.F23), Q(s.y * s.z))>>)

\* lines 84 and 88: the A of the safety-factor solve
CriterioA(F, s) ==
    QSub(QSum(<<QMul(F.F11, Q(s.x * s.x)), QMul(F.F22, Q(s.y * s.y)),
                QMul(F.F33, Q(s.z * s.z)),
                QMul(F.F44, Q(s.yz)), QMul(F.F55, Q(s.xz)),
                QMul(F.F66, Q(s.xy))>>),
         QSum(<<QMul(F.F12, Q(s.x * s.y)), QMul(F.F13, Q(s.x * s.z)),
                QMul(F.F23, Q(s.y * s.z))>>))

\* lines 85 and 89: the B of the safety-factor solve
CriterioB(F, s) ==
    QSum(<<QMul(F.F1, Q(s.x)), QMul(F.F2, Q(s.y)), QMul(F.F3, Q(s.z))>>)

\* CriterioFails without the np.abs
CriterioFailsNoAbs(R) == QLe(Q(1), R)

\* line 83: np.abs(R) >= 1
CriterioFails(R) == QLe(Q(1), QAbs(R))

\* the three kinds of value the safety-factor expression can have
Nan == [kind |-> "nan", rat |-> Q(0), coef |-> Q(0), rad |-> Q(0)]
Inf == [kind |-> "inf", rat |-> Q(0), coef |-> Q(0), rad |-> Q(0)]
\* the real number p + q * sqrt(d), folded into p when the root is rational
Finite(p, q, d) ==
    IF IsSquareQ(d)
    THEN [kind |-> "finite", rat |-> QAdd(p, QMul(q, SqrtQ(d))),
          coef |-> Q(0), rad |-> Q(0)]
    ELSE [kind |-> "finite", rat |-> p, coef |-> q, rad |-> d]

\* lines 86 and 90: 1/2/A*(np.sqrt((B**2) + 4*A) - B) on numpy float64:
\* 1/2/0 is inf, sqrt(B**2) - B is 0 for B >= 0 and inf*0 is nan;
\* sqrt of a negative number is nan
SafetyFactor(A, B) ==
    LET d == QAdd(QSq(B), QMul(Q(4), A))
    IN  IF A = Q(0)
        THEN IF QLt(B, Q(0)) THEN Inf ELSE Nan
        ELSE IF QLt(d, Q(0))
             THEN Nan
             ELSE LET half == QDiv(QDiv(Q(1), Q(2)), A)
                  IN  Finite(QNeg(QMul(half, B)), half, d)

\* the two messages of lines 86 and 90 (the second without its tilde)
FailMsg == "O material vai falhar"
OkMsg == "O material nao vai falhar"

\* the line criterio prints: message, R and "fator de seguranca"
Line(msg, R, fs) == [msg |-> msg, R |-> R, fs |-> fs]

Threads == {1, 2}

IdleFrame == [pc |-> "idle", args |-> <<>>, R |-> <<>>, printed |-> <<>>]

\* a caller enters criterio with the stress state s
CriterioCall(t, s) ==
    /\ obj /= <<>>
    /\ thr[t].pc = "idle"
    /\ thr' = [thr EXCEPT ![t] = [IdleFrame EXCEPT !.pc = "line82", !.args = s]]
    /\ ret' = [ret EXCEPT ![t] = "pending"]
    /\ UNCHANGED <<obj, ctorArgs, sec>>

\* CriterioEvalR doubling self.F12 in place instead of computing 2*self.F12
CriterioEvalRInPlace(t) ==
    /\ thr[t].pc = "line82"
    /\ obj' = <<[Self EXCEPT !.F12 = QMul(Q(2), Self.F12)]>>
    /\ thr' = [thr EXCEPT ![t].pc = "line83",
                          ![t].R = CriterioR(obj'[1], thr[t].args)]
    /\ UNCHANGED <<ctorArgs, ret, sec>>

\* line 82
CriterioEvalR(t) ==
    /\ thr[t].pc = "line82"
    /\ thr' = [thr EXCEPT ![t].pc = "line83",
                          ![t].R = CriterioR(Self, thr[t].args)]
    /\ UNCHANGED <<obj, ctorArgs, ret, sec>>

\* lines 83-86: the branch taken when np.abs(R) >= 1
CriterioFail(t) ==
    /\ thr[t].pc = "line83"
    /\ CriterioFails(thr[t].R)
    /\ LET A == CriterioA(Self, thr[t].args)
           B == CriterioB(Self, thr[t].args)
       IN  thr' = [thr EXCEPT ![t].pc = "line91",
                      ![t].printed = <<Line(FailMsg, thr[t].R,
                                           SafetyFactor(A, B))>>]
    /\ UNCHANGED <<obj, ctorArgs, ret, sec>>

\* lines 87-90: the else branch
CriterioOk(t) ==
    /\ thr[t].pc = "line83"
    /\ ~CriterioFails(thr[t].R)
    /\ LET A == CriterioA(Self, thr[t].args)
           B == CriterioB(Self, thr[t].args)
       IN  thr' = [thr EXCEPT ![t].pc = "line91",
                      ![t].printed = <<Line(OkMsg, thr[t].R,
                                           SafetyFactor(A, B))>>]
    /\ UNCHANGED <<obj, ctorArgs, ret, sec>>

\* line 91: return self
CriterioReturn(t) ==
    /\ thr[t].pc = "line91"
    /\ thr' = [thr EXCEPT ![t] = IdleFrame]
    /\ ret' = [ret EXCEPT ![t] = "self"]
    /\ UNCHANGED <<obj, ctorArgs, sec>>

(***************************************************************************)
(* Construction followed by criterio() with its defaults, over every       *)
(* material of the bound.                                                  *)
(***************************************************************************)
Strengths == 1..MaxStrength
OptStrengths == {None} \cup {Some(v) : v \in Strengths}

\* Tsai = Tsai_Wu(Xc, Xt, Zc, Zt, Sxy, Syz[, Yc][, Yt][, Sxz])
Construct ==
    /\ obj = <<>>
    /\ \E Xc \in Strengths, Xt \in Strengths, Zc \in Strengths,
          Zt \in Strengths, Sxy \in Strengths, Syz \in Strengths,
          Yc \in OptStrengths, Yt \in OptStrengths, Sxz \in OptStrengths :
          LET a == CtorArgs(Xc, Xt, Zc, Zt, Sxy, Syz, Yc, Yt, Sxz)
          IN  /\ obj' = <<TsaiWuInit(a)>>
              /\ ctorArgs' = <<a>>
    /\ UNCHANGED <<thr, ret, sec>>

\* Tsai.criterio() and Tsai.criterio(x): a uniaxial stress, the rest defaulted
StressVals == (-MaxStress)..MaxStress
CallUniaxial(t) ==
    \E x \in StressVals : CriterioCall(t, Stress(x, 0, 0, 0, 0, 0))

Init ==
    /\ obj = <<>>
    /\ ctorArgs = <<>>
    /\ thr = [t \in Threads |-> IdleFrame]
    /\ ret = [t \in Threads |-> "none"]
    /\ sec = <<>>

Next ==
    \/ Construct
    \/ CallUniaxial(1)
    \/ CriterioEvalR(1)
    \/ CriterioFail(1)
    \/ CriterioOk(1)
    \/ CriterioReturn(1)

Spec == Init /\ [][Next]_vars

(***************************************************************************)
(* One caller evaluating general stress states on an object constructed    *)
(* from every axis-1 and shear strength of the bound, two axis-3 strength  *)
(* pairs, and the optional trio either absent or given in full.            *)
(***************************************************************************)
EvalAxis3 == {<<1, 1>>, <<2, 1>>}
EvalOptional == {<<None, None, None>>, <<Some(1), Some(2), Some(2)>>}

EvalCtorArgs ==
    {CtorArgs(Xc, Xt, z[1], z[2], Sxy, Syz, o[1], o[2], o[3]) :
        Xc \in Strengths, Xt \in Strengths, z \in EvalAxis3,
        Sxy \in Strengths, Syz \in Strengths, o \in EvalOptional}

\* stress states with at most two non-zero components: a at i and b at j
Components == {"x", "y", "z", "xy", "xz", "yz"}
StressAt(i, a, j, b) ==
    LET c(k) == IF k = i THEN a ELSE IF k = j THEN b ELSE 0
    IN  Stress(c("x"), c("y"), c("z"), c("xy"), c("xz"), c("yz"))
EvalStress ==
    {StressAt(i, a, j, b) :
        i \in Components, j \in Components, a \in StressVals, b \in StressVals}

\* Tsai.criterio(x, y, z, xy, xz, yz)
CallStress(t) == \E s \in EvalStress : CriterioCall(t, s)

InitEval ==
    /\ \E a \in EvalCtorArgs : obj = <<TsaiWuInit(a)>> /\ ctorArgs = <<a>>
    /\ thr = [t \in Threads |-> IdleFrame]
    /\ ret = [t \in Threads |-> "none"]
    /\ sec = <<>>

NextEval ==
    \/ CallStress(1)
    \/ CriterioEvalR(1)
    \/ CriterioFail(1)
    \/ CriterioOk(1)
    \/ CriterioReturn(1)

SpecEval == InitEval /\ [][NextEval]_vars

(***************************************************************************)
(* Two threads evaluating on one shared object, every interleaving of      *)
(* their steps.                                                            *)
(***************************************************************************)
ConcCtorArgs ==
    {CtorArgs(1, 2, 2, 1, 1, 2, None, None, None),
     CtorArgs(2, 1, 1, 1, 2, 1, Some(1), Some(2), Some(2))}

ConcStress ==
    {ZeroStress, Stress(1, 2, 0, 0, 0, 0), Stress(2, 1, 0, 0, 0, 0),
     Stress(-2, 0, 0, 0, 0, -2), Stress(0, 0, -1, 1, 0, 2)}

CallConc(t) == \E s \in ConcStress : CriterioCall(t, s)

InitConc ==
    /\ \E a \in ConcCtorArgs : obj = <<TsaiWuInit(a)>> /\ ctorArgs = <<a>>
    /\ thr = [t \in Threads |-> IdleFrame]
    /\ ret = [t \in Threads |-> "none"]
    /\ sec = <<>>

NextConc ==
    \E t \in Threads :
        \/ CallConc(t)
        \/ CriterioEvalR(t)
        \/ CriterioFail(t)
        \/ CriterioOk(t)
        \/ CriterioReturn(t)

SpecConc == InitConc /\ [][NextConc]_vars

(***************************************************************************)
(* tensao                                                                  *)
(***************************************************************************)
\* SecondMoment with the operands of the subtraction exchanged
SecondMomentSwapped(w, d, t) ==
    QSub(QDiv(QMul(Q(w - 2 * t), QCube(Q(d - 2 * t))), Q(12)),
         QDiv(QMul(Q(w), QCube(Q(d))), Q(12)))

\* lines 124 and 125: w*(d**3)/12 - ((w - 2*t)*((d - 2*t)**3))/12
SecondMoment(w, d, t) ==
    QSub(QDiv(QMul(Q(w), QCube(Q(d))), Q(12)),
         QDiv(QMul(Q(w - 2 * t), QCube(Q(d - 2 * t))), Q(12)))

\* line 127: (h*b - (h - 2*t)*(b - 2*t))*h/2
FirstMoment(h, b, t) ==
    QDiv(QMul(Q(h * b - (h - 2 * t) * (b - 2 * t)), Q(h)), Q(2))

\* lines 124-130 on Python floats: a division by zero raises
\* ZeroDivisionError, otherwise the 6-tuple (X, 0, 0, 0, 0, yz) is returned
TensaoFrame(h, b, t, MF, MTp, FC, MTt) ==
    LET Ix == SecondMoment(b, h, t)
        Iy == SecondMoment(h, b, t)
        J  == QAdd(Ix, Iy)
        Qm == FirstMoment(h, b, t)
        hh == QDiv(Q(h), Q(2))
        w  == QMul(Ix, Q(2 * t))
        raises == Ix = Q(0) \/ J = Q(0) \/ w = Q(0)
        X  == QNeg(QDiv(QMul(Q(MF), hh), Ix))
        yz == QSum(<<QAbs(QDiv(QMul(Q(MTt), hh), J)),
                     QAbs(QDiv(QMul(Q(MTp), hh), J)),
                     QAbs(QDiv(QMul(Q(FC), Qm), w))>>)
    IN  [h |-> h, b |-> b, t |-> t, MF |-> MF, MTp |-> MTp, FC |-> FC,
         MTt |-> MTt, Ix |-> Ix, Iy |-> Iy,
         outcome |-> IF raises THEN "ZeroDivisionError" ELSE "returned",
         value |-> IF raises THEN <<>>
                   ELSE <<X, Q(0), Q(0), Q(0), Q(0), yz>>]

Dims == 1..MaxDim
Loads == (-MaxLoad)..MaxLoad

\* tensao(h, b, t, MF, MTp, FC, MTt)
Tensao ==
    /\ sec = <<>>
    /\ \E h \in Dims, b \in Dims, t \in Dims,
          MF \in Loads, MTp \in Loads, FC \in Loads, MTt \in Loads :
          sec' = <<TensaoFrame(h, b, t, MF, MTp, FC, MTt)>>
    /\ UNCHANGED <<obj, ctorArgs, thr, ret>>

SpecSection == Init /\ [][Tensao]_vars

(***************************************************************************)
(* The claims.                                                             *)
(***************************************************************************)
\* a call of thread t that has printed its line and is about to return
Printed(t) == thr[t].pc = "line91"

NoOptionalGiven(a) == a.Yc = None /\ a.Yt = None /\ a.Sxz = None
PartialOptional(a) == ~NoOptionalGiven(a) /\ ~AllOptionalGiven(a)

\* C1: constructed without Yc, Yt and Sxz the object has F2 = F1, F22 = F11
\* and F55 = F44; constructed with all three it has F2 = (Yc-Yt)/(Yc*Yt),
\* F22 = 1/(Yc*Yt) and F55 = 1/Sxz^2.
C1_OptionalCoefficients ==
    obj /= <<>> =>
        LET a == ctorArgs[1]
            F == Self
        IN  /\ NoOptionalGiven(a) =>
                F.F2 = F.F1 /\ F.F22 = F.F11 /\ F.F55 = F.F44
            /\ AllOptionalGiven(a) =>
                /\ F.F2 = Norm(Val(a.Yc) - Val(a.Yt), Val(a.Yc) * Val(a.Yt))
                /\ F.F22 = Norm(1, Val(a.Yc) * Val(a.Yt))
                /\ F.F55 = Norm(1, Val(a.Sxz) * Val(a.Sxz))

\* an object built without the optional trio whose axis-1 and 2-3 shear
\* coefficients differ from each other, so that the copies are visible
C1_Witness ==
    /\ obj /= <<>>
    /\ NoOptionalGiven(ctorArgs[1])
    /\ Self.F1 /= Q(0)
    /\ Self.F44 /= Self.F66
    /\ Self.F55 = Self.F44

\* C4 (as claimed): no object is ever produced from a partial optional set.
C4_PartialRejected ==
    obj /= <<>> => ~PartialOptional(ctorArgs[1])

\* the kind of result the claims require of a degenerate safety-factor solve:
\* a report that the factor is undefined.  criterio has no statement that
\* produces it: the safety-factor slot of its line always holds the value of
\* the float expression of lines 86 and 90, which is finite, nan or inf.
Undefined == "undefined"

\* C5 (as claimed): criterio() on the zero stress state prints R = 0 with the
\* "does not fail" message, and its safety factor is reported as undefined
\* rather than being the nan that dividing by the zero A leaves behind.
C5_ZeroStressReported ==
    \A t \in Threads :
        (Printed(t) /\ thr[t].args = ZeroStress) =>
            /\ thr[t].printed[1].R = Q(0)
            /\ thr[t].printed[1].msg = OkMsg
            /\ thr[t].printed[1].fs.kind = Undefined

\* C2: criterio prints the "will fail" message exactly when |R| >= 1, R being
\* the failure index of the call's stress state; R <= -1 is failing.
C2_Verdict ==
    \A t \in Threads :
        Printed(t) =>
            LET R == CriterioR(Self, thr[t].args)
                p == thr[t].printed[1]
            IN  /\ p.R = R
                /\ p.msg \in {FailMsg, OkMsg}
                /\ p.msg = FailMsg <=> (QLe(Q(1), R) \/ QLe(R, Q(-1)))

\* a stress state with R <= -1, reported as failing
C2_Witness ==
    /\ Printed(1)
    /\ QLe(thr[1].R, Q(-1))
    /\ thr[1].printed[1].msg = FailMsg

\* Numbers u[1] + u[2] * sqrt(d) for a fixed radicand d.
SurdAdd(u, v) == <<QAdd(u[1], v[1]), QAdd(u[2], v[2])>>
SurdMul(d, u, v) ==
    <<QAdd(QMul(u[1], v[1]), QMul(QMul(u[2], v[2]), d)),
      QAdd(QMul(u[1], v[2]), QMul(u[2], v[1]))>>
SurdScale(c, u) == <<QMul(c, u[1]), QMul(c, u[2])>>
RECURSIVE SurdSum(_)
SurdSum(s) == IF s = <<>> THEN <<Q(0), Q(0)>> ELSE SurdAdd(Head(s), SurdSum(Tail(s)))

\* the failure index of the stress state s scaled by k = fs.rat + fs.coef*sqrt(fs.rad)
ScaledR(F, fs, s) ==
    LET k == <<fs.rat, fs.coef>>
        d == fs.rad
        c(v) == SurdScale(Q(v), k)
        lin(f, v) == SurdScale(f, c(v))
        quad(f, v, w) == SurdScale(f, SurdMul(d, c(v), c(w)))
    IN  SurdSum(<<lin(F.F1, s.x), lin(F.F2, s.y), lin(F.F3, s.z),
                  quad(F.F11, s.x, s.x), quad(F.F22, s.y, s.y),
                  quad(F.F33, s.z, s.z), quad(F.F44, s.yz, s.yz),
                  quad(F.F55, s.xz, s.xz), quad(F.F66, s.xy, s.xy),
                  quad(QMul(Q(2), F.F12), s.x, s.y),
                  quad(QMul(Q(2), F.F13), s.x, s.z),
                  quad(QMul(Q(2), F.F23), s.y, s.z)>>)

\* C3 (as claimed): whenever criterio prints a finite safety factor k, the
\* failure index of the stress state scaled by k is exactly 1.
C3_ScalingLaw ==
    \A t \in Threads :
        (Printed(t) /\ thr[t].printed[1].fs.kind = "finite") =>
            ScaledR(Self, thr[t].printed[1].fs, thr[t].args) = <<Q(1), Q(0)>>

\* C6 (as claimed): when A = 0 or B^2 + 4A < 0 the call ends with the safety
\* factor reported as undefined, not with a value in the safety-factor slot of
\* the ordinary line; a numeric safety factor is printed only when A /= 0 and
\* B^2 + 4A >= 0.
C6_DegenerateReported ==
    \A t \in Threads :
        Printed(t) =>
            LET A == CriterioA(Self, thr[t].args)
                B == CriterioB(Self, thr[t].args)
                d == QAdd(QMul(B, B), QMul(Q(4), A))
                k == thr[t].printed[1].fs.kind
            IN  /\ (A = Q(0) \/ QLt(d, Q(0))) => k = Undefined
                /\ k = "finite" => (A /= Q(0) /\ QLe(Q(0), d))

\* C9: on an object constructed without Yc, Yt and Sxz, criterio(x=a, y=b)
\* and criterio(x=b, y=a) have the same failure index R.
C9_Symmetry ==
    \A t \in Threads :
        (/\ Printed(t)
         /\ NoOptionalGiven(ctorArgs[1])
         /\ thr[t].args.z = 0 /\ thr[t].args.xy = 0
         /\ thr[t].args.xz = 0 /\ thr[t].args.yz = 0) =>
            thr[t].printed[1].R =
                CriterioR(Self, Stress(thr[t].args.y, thr[t].args.x, 0, 0, 0, 0))

\* x and y differ and are both non-zero, on a material with a linear term
C9_Witness ==
    /\ Printed(1)
    /\ NoOptionalGiven(ctorArgs[1])
    /\ Self.F1 /= Q(0)
    /\ thr[1].args = Stress(2, -1, 0, 0, 0, 0)

\* what one criterio call on the coefficients F prints for the stress state s
\* when nothing else runs
SequentialLine(F, s) ==
    LET R == CriterioR(F, s)
    IN  Line(IF CriterioFails(R) THEN FailMsg ELSE OkMsg, R,
             SafetyFactor(CriterioA(F, s), CriterioB(F, s)))

\* C8: under every interleaving of the threads' criterio calls the twelve
\* coefficients never change, every call returns the object it was called
\* on, and the line a call prints is the one its six arguments alone
\* determine on the coefficients the constructor stored.
C8_Frame ==
    /\ [][/\ obj' = obj
          /\ \A t \in Threads :
                (thr[t].pc = "line91" /\ thr'[t].pc = "idle") => ret'[t] = "self"]_vars
    /\ [](\A t \in Threads :
            /\ ret[t] \in {"none", "pending", "self"}
            /\ Printed(t) =>
                thr[t].printed[1] =
                    SequentialLine(TsaiWuInit(ctorArgs[1]), thr[t].args))

\* one thread has printed while the other, on a different stress state, is
\* between its evaluation of R and its print, after an earlier call returned
C8_Witness ==
    /\ Printed(1)
    /\ thr[2].pc = "line83"
    /\ thr[1].args /= thr[2].args
    /\ thr[1].args /= ZeroStress
    /\ thr[2].args /= ZeroStress

\* C7 (as claimed): tensao returns a stress tuple only when 2t < h and 2t < b.
C7_PreconditionFlagged ==
    (sec /= <<>> /\ sec[1].outcome = "returned") =>
        (2 * sec[1].t < sec[1].h /\ 2 * sec[1].t < sec[1].b)

\* C10 (as claimed): Ix and Iy are positive when 2t < h and 2t < b, and one of
\* them is negative when 2t >= h or 2t >= b.
C10_NegativeWhenViolated ==
    sec /= <<>> =>
        LET f == sec[1]
            pre == 2 * f.t < f.h /\ 2 * f.t < f.b
        IN  /\ pre => (QLt(Q(0), f.Ix) /\ QLt(Q(0), f.Iy))
            /\ ~pre => (QLt(f.Ix, Q(0)) \/ QLt(f.Iy, Q(0)))

\* C10 (amended): Ix and Iy are positive when 2t < h and 2t < b; a negative
\* second moment occurs only when both 2t > h and 2t > b.
C10_SecondMoments ==
    sec /= <<>> =>
        LET f == sec[1]
            pre == 2 * f.t < f.h /\ 2 * f.t < f.b
        IN  /\ pre => (QLt(Q(0), f.Ix) /\ QLt(Q(0), f.Iy))
            /\ (QLt(f.Ix, Q(0)) \/ QLt(f.Iy, Q(0))) =>
                (2 * f.t > f.h /\ 2 * f.t > f.b)

\* a call that violates the precondition and has a negative second moment
C10_Witness ==
    /\ sec /= <<>>
    /\ 2 * sec[1].t > sec[1].h
    /\ 2 * sec[1].t > sec[1].b
    /\ QLt(sec[1].Ix, Q(0))
    /\ sec[1].outcome = "returned"

====
